---- MODULE Spec2Model ----
(***************************************************************************)
(* A model of the Sudoku engine of src/src/solver.js (class SudokuSolver   *)
(* and the legacy wrappers built on a module-level instance).              *)
(*                                                                         *)
(* A board is a function  row -> col -> digit  over 0..8, as the           *)
(* JavaScript board[row][col]; a candidate grid is  row -> col -> set.     *)
(* One solve call is stepped rule by rule: every propagation rule, every   *)
(* cell selection, every trial assignment and every return of              *)
(* solveWithBacktracking is one action, with the call stack explicit.      *)
(***************************************************************************)
EXTENDS Integers, Sequences, FiniteSets, TLC

\* ------------------------------------------------------------------ sizes
N == 9
\* side of a box
B == 3
\* the score offset of analyzeDifficulty
FilledTarget == 30

Idx == 0 .. (N - 1)
Digits == 1 .. N
BoxIdx == 0 .. (B - 1)

\* the cells of the box (boxRow, boxCol), in the scan order of the loops
\* for r from boxRow * 3, for c from boxCol * 3
BoxCells(boxRow, boxCol) ==
    LET r == boxRow * B
        c == boxCol * B
    IN  << << r, c >>, << r, c + 1 >>, << r, c + 2 >>,
           << r + 1, c >>, << r + 1, c + 1 >>, << r + 1, c + 2 >>,
           << r + 2, c >>, << r + 2, c + 1 >>, << r + 2, c + 2 >> >>

\* the cells of a row and of a column, in the scan order of the loops
RowCells(row) ==
    << << row, 0 >>, << row, 1 >>, << row, 2 >>, << row, 3 >>, << row, 4 >>,
       << row, 5 >>, << row, 6 >>, << row, 7 >>, << row, 8 >> >>
ColCells(col) ==
    << << 0, col >>, << 1, col >>, << 2, col >>, << 3, col >>, << 4, col >>,
       << 5, col >>, << 6, col >>, << 7, col >>, << 8, col >> >>

\* the smallest element of a non-empty set of integers
Least(S) == CHOOSE x \in S : \A y \in S : x <= y

\* a set of integers as the ascending list a JavaScript Set built from
\* [1..9] by deletions iterates in
RECURSIVE Ascending(_)
Ascending(S) == IF S = {} THEN << >> ELSE << Least(S) >> \o Ascending(S \ {Least(S)})

\* ------------------------------------------------------- candidate store
\* Array(9).fill().map(f): the array of f(0) .. f(8), f being constant here
RECURSIVE Filled(_, _)
Filled(v, n) == IF n = 0 THEN (0 :> v) ELSE Filled(v, n - 1) @@ (n :> v)

\* the nine-by-nine grid of full sets built at the start of initializeCandidates
FullCandidates == Filled(Filled(Digits, N - 1), N - 1)

\* candidates[r][c].delete(value) for the nine cells of a unit (a list),
\* those in skip excepted
DeleteAll(cand, cells, skip, value) ==
    LET gone(k) == IF cells[k] \in skip THEN {} ELSE {value}
    IN  [cand EXCEPT ![cells[1][1]][cells[1][2]] = @ \ gone(1),
                     ![cells[2][1]][cells[2][2]] = @ \ gone(2),
                     ![cells[3][1]][cells[3][2]] = @ \ gone(3),
                     ![cells[4][1]][cells[4][2]] = @ \ gone(4),
                     ![cells[5][1]][cells[5][2]] = @ \ gone(5),
                     ![cells[6][1]][cells[6][2]] = @ \ gone(6),
                     ![cells[7][1]][cells[7][2]] = @ \ gone(7),
                     ![cells[8][1]][cells[8][2]] = @ \ gone(8),
                     ![cells[9][1]][cells[9][2]] = @ \ gone(9)]

\* faulty variant: the value stays a candidate in the box
setCellValueNoBox(s, row, col, value) ==
    [s EXCEPT
        !.board = [s.board EXCEPT ![row][col] = value],
        !.cand = DeleteAll(
                    DeleteAll([s.cand EXCEPT ![row][col] = {}],
                              RowCells(row), {}, value),
                    ColCells(col), {}, value)]

\* faulty variant: the value stays a candidate in the column
setCellValueNoColumn(s, row, col, value) ==
    [s EXCEPT
        !.board = [s.board EXCEPT ![row][col] = value],
        !.cand = DeleteAll(
                    DeleteAll([s.cand EXCEPT ![row][col] = {}],
                              RowCells(row), {}, value),
                    BoxCells(row \div B, col \div B), {}, value)]

\* setCellValue: s is a record with fields board and cand (and any others)
setCellValue(s, row, col, value) ==
    [s EXCEPT
        !.board = [s.board EXCEPT ![row][col] = value],
        !.cand = DeleteAll(
                    DeleteAll(
                        DeleteAll([s.cand EXCEPT ![row][col] = {}],
                                  RowCells(row), {}, value),
                        ColCells(col), {}, value),
                    BoxCells(row \div B, col \div B), {}, value)]

\* The loops of the source are run in their order by halving the range of
\* iterations: iterations lo..mid, then mid+1..hi on the state they leave.
\* Iteration k of a nest of two loops of nine is (k \div 9, k % 9).

\* the body of the loops of initializeCandidates
InitAt(s, row, col) ==
    IF s.board[row][col] # 0 THEN setCellValue(s, row, col, s.board[row][col]) ELSE s

RECURSIVE InitCells(_, _, _)
InitCells(s, lo, hi) ==
    IF lo = hi THEN InitAt(s, lo \div N, lo % N)
    ELSE LET mid == (lo + hi) \div 2
             t == InitCells(s, lo, mid)
         IN  IF t = s THEN InitCells(s, mid + 1, hi) ELSE InitCells(t, mid + 1, hi)

\* initializeCandidates(board): the board and the candidate grid afterwards
initializeCandidates(board) ==
    InitCells([board |-> board, cand |-> FullCandidates], 0, N * N - 1)

\* ------------------------------------------------------------ validation
\* a unit repeats a non-zero digit
Repeats(board, cells) ==
    \E i, j \in DOMAIN cells :
        /\ i < j
        /\ board[cells[i][1]][cells[i][2]] # 0
        /\ board[cells[i][1]][cells[i][2]] = board[cells[j][1]][cells[j][2]]

\* faulty variant: the boxes are not checked
isValidBoardNoBoxes(board) ==
    /\ \A row, col \in Idx : ~ (board[row][col] < 0 \/ board[row][col] > 9)
    /\ \A row \in Idx : ~ Repeats(board, RowCells(row))
    /\ \A col \in Idx : ~ Repeats(board, ColCells(col))

isValidBoard(board) ==
    /\ \A row, col \in Idx : ~ (board[row][col] < 0 \/ board[row][col] > 9)
    /\ \A row \in Idx : ~ Repeats(board, RowCells(row))
    /\ \A col \in Idx : ~ Repeats(board, ColCells(col))
    /\ \A boxRow, boxCol \in BoxIdx : ~ Repeats(board, BoxCells(boxRow, boxCol))

isComplete(board) == \A row, col \in Idx : board[row][col] # 0

\* ------------------------------------------------------ propagation rules
\* a trace entry, as pushed on solvingSteps
Step(technique, row, col, value) ==
    [technique |-> technique, row |-> row, col |-> col, value |-> value]

\* the body of the loops of solveNakedSingles; s has board, cand, steps, progress
NakedAt(s, row, col) ==
    IF s.board[row][col] = 0 /\ Cardinality(s.cand[row][col]) = 1
    THEN LET value == Least(s.cand[row][col])
             t == setCellValue(s, row, col, value)
         IN  [t EXCEPT !.steps = Append(@, Step("Naked Single", row, col, value)),
                       !.progress = TRUE]
    ELSE s

\* the iterations lo..hi of the loops over row and col
RECURSIVE NakedCells(_, _, _)
NakedCells(s, lo, hi) ==
    IF lo = hi THEN NakedAt(s, lo \div N, lo % N)
    ELSE LET mid == (lo + hi) \div 2
             t == NakedCells(s, lo, mid)
         IN  IF t.progress THEN NakedCells(t, mid + 1, hi) ELSE NakedCells(s, mid + 1, hi)

solveNakedSingles(s) == NakedCells([s EXCEPT !.progress = FALSE], 0, N * N - 1)

\* the cells of a unit (a list) that are empty and can hold value, in scan order
Possible(s, cells, value) ==
    SelectSeq(cells, LAMBDA p : s.board[p[1]][p[2]] = 0 /\ value \in s.cand[p[1]][p[2]])

\* one (unit, value) iteration of a hidden-single loop
HiddenAt(s, cells, value, technique) ==
    LET possible == Possible(s, cells, value)
    IN  IF Len(possible) = 1
        THEN LET row == possible[1][1]
                 col == possible[1][2]
                 t == setCellValue(s, row, col, value)
             IN  [t EXCEPT !.steps = Append(@, Step(technique, row, col, value)),
                           !.progress = TRUE]
        ELSE s

\* unit u of the rows, of the columns, of the boxes, in the order the
\* loops visit them
Unit(technique, u) ==
    IF technique = "Hidden Single (Row)" THEN RowCells(u)
    ELSE IF technique = "Hidden Single (Column)" THEN ColCells(u)
    ELSE BoxCells(u \div B, u % B)

\* the iterations lo..hi of one of the three loop nests of solveHiddenSingles:
\* iteration k is unit k \div 9 and value k % 9 + 1
RECURSIVE HiddenUnits(_, _, _, _)
HiddenUnits(s, technique, lo, hi) ==
    IF lo = hi THEN HiddenAt(s, Unit(technique, lo \div N), (lo % N) + 1, technique)
    ELSE LET mid == (lo + hi) \div 2
             t == HiddenUnits(s, technique, lo, mid)
         IN  IF t.progress THEN HiddenUnits(t, technique, mid + 1, hi)
             ELSE HiddenUnits(s, technique, mid + 1, hi)

\* the loop nests of a list of techniques, one after the other
RECURSIVE HiddenNests(_, _)
HiddenNests(s, techniques) ==
    IF techniques = << >> THEN s
    ELSE LET t == HiddenUnits(s, Head(techniques), 0, N * N - 1)
         IN  IF t.progress THEN HiddenNests(t, Tail(techniques))
             ELSE HiddenNests(s, Tail(techniques))

solveHiddenSingles(s) ==
    HiddenNests([s EXCEPT !.progress = FALSE],
                << "Hidden Single (Row)", "Hidden Single (Column)", "Hidden Single (Box)" >>)

\* faulty variant: the deletion does not pass over the cells of skip
EliminateWholeUnit(s, cells, skip, value) ==
    IF \E i \in DOMAIN cells : value \in s.cand[cells[i][1]][cells[i][2]]
    THEN [s EXCEPT !.cand = DeleteAll(s.cand, cells, {}, value), !.progress = TRUE]
    ELSE s

\* faulty variant: progress is set whether or not a set held the value
EliminateReports(s, cells, skip, value) ==
    [s EXCEPT !.cand = DeleteAll(s.cand, cells, skip, value), !.progress = TRUE]

\* delete value from the candidate sets of the cells of a unit that are not
\* in skip; progress is set when some set held it
Eliminate(s, cells, skip, value) ==
    IF \E i \in DOMAIN cells : cells[i] \notin skip /\ value \in s.cand[cells[i][1]][cells[i][2]]
    THEN [s EXCEPT !.cand = DeleteAll(s.cand, cells, skip, value), !.progress = TRUE]
    ELSE s

\* the cells of a list, as a set
Range(cells) == {cells[i] : i \in DOMAIN cells}

\* one (box, value) iteration of solvePointingPairs
PointingAt(s, boxRow, boxCol, value) ==
    LET cellsWithValue == Possible(s, BoxCells(boxRow, boxCol), value)
        rows == {cellsWithValue[i][1] : i \in DOMAIN cellsWithValue}
        cols == {cellsWithValue[i][2] : i \in DOMAIN cellsWithValue}
        inBox == Range(BoxCells(boxRow, boxCol))
    IN  IF Len(cellsWithValue) >= 2 /\ Len(cellsWithValue) <= 3
        THEN LET afterRow ==
                     IF Cardinality(rows) = 1
                     THEN Eliminate(s, RowCells(Least(rows)), inBox, value)
                     ELSE s
             IN  IF Cardinality(cols) = 1
                 THEN Eliminate(afterRow, ColCells(Least(cols)), inBox, value)
                 ELSE afterRow
        ELSE s

\* the iterations lo..hi of the loops over the boxes and the values
RECURSIVE PointingBoxes(_, _, _)
PointingBoxes(s, lo, hi) ==
    IF lo = hi THEN PointingAt(s, (lo \div N) \div B, (lo \div N) % B, (lo % N) + 1)
    ELSE LET mid == (lo + hi) \div 2
             t == PointingBoxes(s, lo, mid)
         IN  IF t.progress THEN PointingBoxes(t, mid + 1, hi)
             ELSE PointingBoxes(s, mid + 1, hi)

solvePointingPairs(s) == PointingBoxes([s EXCEPT !.progress = FALSE], 0, N * N - 1)

\* one (row, value) iteration of the first loop nest of solveBoxLineReduction
BoxLineRowAt(s, row, value) ==
    LET possible == Possible(s, RowCells(row), value)
        boxesWithValue == {possible[i][2] \div B : i \in DOMAIN possible}
    IN  IF Cardinality(boxesWithValue) = 1
        THEN Eliminate(s, BoxCells(row \div B, Least(boxesWithValue)),
                       Range(RowCells(row)), value)
        ELSE s

\* one (column, value) iteration of the second loop nest
BoxLineColAt(s, col, value) ==
    LET possible == Possible(s, ColCells(col), value)
        boxesWithValue == {possible[i][1] \div B : i \in DOMAIN possible}
    IN  IF Cardinality(boxesWithValue) = 1
        THEN Eliminate(s, BoxCells(Least(boxesWithValue), col \div B),
                       Range(ColCells(col)), value)
        ELSE s

\* the iterations lo..hi of the first loop nest, and of the second
RECURSIVE BoxLineRows(_, _, _)
BoxLineRows(s, lo, hi) ==
    IF lo = hi THEN BoxLineRowAt(s, lo \div N, (lo % N) + 1)
    ELSE LET mid == (lo + hi) \div 2
             t == BoxLineRows(s, lo, mid)
         IN  IF t.progress THEN BoxLineRows(t, mid + 1, hi)
             ELSE BoxLineRows(s, mid + 1, hi)

RECURSIVE BoxLineCols(_, _, _)
BoxLineCols(s, lo, hi) ==
    IF lo = hi THEN BoxLineColAt(s, lo \div N, (lo % N) + 1)
    ELSE LET mid == (lo + hi) \div 2
             t == BoxLineCols(s, lo, mid)
         IN  IF t.progress THEN BoxLineCols(t, mid + 1, hi)
             ELSE BoxLineCols(s, mid + 1, hi)

solveBoxLineReduction(s) ==
    LET start == [s EXCEPT !.progress = FALSE]
        rows == BoxLineRows(start, 0, N * N - 1)
    IN  IF rows.progress THEN BoxLineCols(rows, 0, N * N - 1)
        ELSE BoxLineCols(start, 0, N * N - 1)

\* ------------------------------------------------------------ the state
\* The board objects of one API call: the caller's array, and the copies
\* the call makes of it.
Refs == {"board", "boardCopy", "fallbackCopy", "originalBoard"}
\* a reference that holds no array yet
NoBoard == << >>
\* the solver objects: the instance the API is called on, and the scratch
\* instance that getIntelligentHint and analyzeDifficulty construct
Insts == {"this", "solver"}
\* the fields of a newly constructed SudokuSolver
NewSolver == [solvingSteps |-> << >>, candidates |-> << >>]

VARIABLES
    heap,       \* Refs -> board: the contents of the board objects
    solvers,    \* Insts -> [solvingSteps, candidates]: the fields of the instances
    api,        \* the entry point being executed, "none" between calls
    input,      \* the board the caller passed, as it was at the call
    self,       \* the instance whose solve is running
    target,     \* the reference solve was given
    pc,         \* the position of the running call
    progress,   \* the local variable progress of constraintPropagation
    stack,      \* the frames of solveWithBacktracking that are in their loop
    retval,     \* the value the last solveWithBacktracking returned
    outcome,    \* the object solve returned
    result,     \* the value the entry point returned
    fresh       \* the first call on the instance, when it was a solve: input and result

vars == << heap, solvers, api, input, self, target, pc, progress, stack, retval,
           outcome, result, fresh >>

NoResult == [kind |-> "none"]
Null == [kind |-> "null"]

\* faulty variant: the copy is the board itself
copyBoardAlias(src, dst) == src

\* copyBoard returns a new array: dst names the object it allocates
copyBoard(src, dst) == dst

\* the heap after  dst = copyBoard(src)
Alloc(h, src, dst) == [h EXCEPT ![copyBoard(src, dst)] = h[src]]

\* the running solve's view of the state, and the state with that view stored
Cur == [board |-> heap[target], cand |-> solvers[self].candidates,
        steps |-> solvers[self].solvingSteps, progress |-> FALSE]

Store(s) ==
    /\ heap' = [heap EXCEPT ![target] = s.board]
    /\ solvers' = [solvers EXCEPT ![self] = [solvingSteps |-> s.steps, candidates |-> s.cand]]

\* ------------------------------------------------------------------ solve
\* faulty variant: the trace of the earlier call is kept
solveResetKeepsTrace(inst, board) ==
    [solvingSteps |-> inst.solvingSteps, candidates |-> initializeCandidates(board).cand]

\* solve, lines 347-348: the fields of the instance inst once the trace is
\* emptied and the candidates are built for board
solveReset(inst, board) ==
    [solvingSteps |-> << >>, candidates |-> initializeCandidates(board).cand]

\* solve, lines 347-352: reset the trace, build the candidates, validate
EnterSolve ==
    /\ pc = "enter"
    /\ LET s == initializeCandidates(heap[target])
       IN  /\ heap' = [heap EXCEPT ![target] = s.board]
           /\ solvers' = [solvers EXCEPT ![self] = solveReset(@, heap[target])]
           /\ IF ~ isValidBoard(s.board)
              THEN /\ outcome' = [kind |-> "outcome", success |-> FALSE, hasSteps |-> FALSE,
                                  steps |-> << >>, error |-> "Invalid initial board state"]
                   /\ pc' = "finish"
              ELSE /\ outcome' = outcome
                   /\ pc' = "naked"
    /\ progress' = FALSE
    /\ stack' = << >>
    /\ UNCHANGED << api, input, self, target, retval, result, fresh >>

\* constraintPropagation, line 285
NakedSingles ==
    /\ pc = "naked"
    /\ LET s == solveNakedSingles(Cur)
       IN  Store(s) /\ progress' = s.progress
    /\ pc' = "hidden"
    /\ UNCHANGED << api, input, self, target, stack, retval, outcome, result, fresh >>

\* line 286
HiddenSingles ==
    /\ pc = "hidden"
    /\ LET s == solveHiddenSingles(Cur)
       IN  Store(s) /\ progress' = (progress \/ s.progress)
    /\ pc' = "pointing"
    /\ UNCHANGED << api, input, self, target, stack, retval, outcome, result, fresh >>

\* line 287
PointingPairs ==
    /\ pc = "pointing"
    /\ LET s == solvePointingPairs(Cur)
       IN  Store(s) /\ progress' = (progress \/ s.progress)
    /\ pc' = "boxline"
    /\ UNCHANGED << api, input, self, target, stack, retval, outcome, result, fresh >>

\* faulty variant: the loop test sees the progress of the last rule only
BoxLineReductionForgets ==
    /\ pc = "boxline"
    /\ LET s == solveBoxLineReduction(Cur)
       IN  /\ Store(s)
           /\ pc' = IF s.progress THEN "naked" ELSE "select"
    /\ progress' = FALSE
    /\ UNCHANGED << api, input, self, target, stack, retval, outcome, result, fresh >>

\* line 288 and the loop test of line 283
BoxLineReduction ==
    /\ pc = "boxline"
    /\ LET s == solveBoxLineReduction(Cur)
       IN  /\ Store(s)
           /\ pc' = IF progress \/ s.progress THEN "naked" ELSE "select"
    /\ progress' = FALSE
    /\ UNCHANGED << api, input, self, target, stack, retval, outcome, result, fresh >>

\* the empty cells in row-major order
EmptyCells(board) ==
    SelectSeq([k \in 1 .. N * N |-> << (k - 1) \div N, (k - 1) % N >>],
              LAMBDA p : board[p[1]][p[2]] = 0)

\* the number of candidates of a cell
candidateCount(cand, cell) == Cardinality(cand[cell[1]][cell[2]])

\* faulty variant: a cell without candidates is passed over
FindBestCellSkipDead(board, cand) ==
    LET cells == SelectSeq(EmptyCells(board), LAMBDA p : candidateCount(cand, p) # 0)
    IN  IF cells = << >> THEN << "none" >>
        ELSE cells[CHOOSE i \in DOMAIN cells : \A j \in DOMAIN cells :
                      \/ candidateCount(cand, cells[i]) < candidateCount(cand, cells[j])
                      \/ candidateCount(cand, cells[i]) = candidateCount(cand, cells[j])
                            /\ i <= j]

\* the scan of lines 298-314: "dead" when some empty cell has no candidate
\* (the scan returns at the first it meets), else the cell the scan ends
\* with, which is the first, row-major, of the least candidate count (every
\* count is below the initial minCandidates of 10); "none" when no cell is empty
FindBestCell(board, cand) ==
    LET cells == EmptyCells(board)
    IN  IF \E i \in DOMAIN cells : candidateCount(cand, cells[i]) = 0 THEN << "dead" >>
        ELSE IF cells = << >> THEN << "none" >>
        ELSE cells[CHOOSE i \in DOMAIN cells : \A j \in DOMAIN cells :
                      \/ candidateCount(cand, cells[i]) < candidateCount(cand, cells[j])
                      \/ candidateCount(cand, cells[i]) = candidateCount(cand, cells[j])
                            /\ i <= j]

\* solveWithBacktracking, lines 297-321
SelectCell ==
    /\ pc = "select"
    /\ LET bestCell == FindBestCell(heap[target], solvers[self].candidates)
       IN  IF bestCell = << "dead" >>
           THEN /\ retval' = FALSE /\ pc' = "return" /\ stack' = stack
           ELSE IF bestCell = << "none" >>
           THEN /\ retval' = TRUE /\ pc' = "return" /\ stack' = stack
           ELSE /\ stack' = Append(stack,
                        [row |-> bestCell[1], col |-> bestCell[2],
                         candidateValues |->
                             Ascending(solvers[self].candidates[bestCell[1]][bestCell[2]]),
                         i |-> 1,
                         boardCopy |-> NoBoard, candidatesCopy |-> << >>])
                /\ pc' = "try" /\ retval' = retval
    /\ UNCHANGED << heap, solvers, api, input, self, target, progress, outcome, result, fresh >>

Top == stack[Len(stack)]
Pop == SubSeq(stack, 1, Len(stack) - 1)

\* the loop of lines 324-340: the next value is tried, or the loop is over
TryValue ==
    /\ pc = "try"
    /\ IF Top.i > Len(Top.candidateValues)
       THEN /\ stack' = Pop
            /\ retval' = FALSE
            /\ pc' = "return"
            /\ UNCHANGED << heap, solvers >>
       ELSE /\ stack' = [stack EXCEPT ![Len(stack)] =
                            [@ EXCEPT !.boardCopy = heap[target],
                                      !.candidatesCopy = solvers[self].candidates]]
            /\ Store(setCellValue(Cur, Top.row, Top.col, Top.candidateValues[Top.i]))
            /\ retval' = retval
            /\ pc' = "naked"
    /\ progress' = FALSE
    /\ UNCHANGED << api, input, self, target, outcome, result, fresh >>

\* faulty variant: the board keeps the digits of the refuted branch
restoreBoardSkipped(board, backup) == board

\* faulty variant: the candidates stay those of the refuted branch
restoreCandidatesSkipped(candidates, backup) == candidates

\* restoreBoard and restoreCandidates
restoreBoard(board, backup) == backup
restoreCandidates(candidates, backup) == backup

\* a recursive solveWithBacktracking returns to the loop of its caller
ReturnToCaller ==
    /\ pc = "return"
    /\ stack # << >>
    /\ IF retval
       THEN /\ stack' = Pop
            /\ pc' = "return"
            /\ UNCHANGED << heap, solvers >>
       ELSE /\ heap' = [heap EXCEPT ![target] = restoreBoard(@, Top.boardCopy)]
            /\ solvers' = [solvers EXCEPT ![self].candidates =
                               restoreCandidates(@, Top.candidatesCopy)]
            /\ stack' = [stack EXCEPT ![Len(stack)].i = @ + 1]
            /\ pc' = "try"
    /\ UNCHANGED << api, input, self, target, progress, retval, outcome, result, fresh >>

\* the outermost solveWithBacktracking returns to solve, lines 354-360
SolveReturns ==
    /\ pc = "return"
    /\ stack = << >>
    /\ outcome' = [kind |-> "outcome", success |-> retval, hasSteps |-> TRUE,
                   steps |-> solvers[self].solvingSteps,
                   error |-> IF retval THEN "null" ELSE "No solution exists for this puzzle"]
    /\ pc' = "finish"
    /\ UNCHANGED << heap, solvers, api, input, self, target, progress, stack, retval,
                    result, fresh >>

\* -------------------------------------------------------------- the hint
\* the first cell, row-major, that is 0 in board and not 0 in filled
FirstFilled(board, filled) ==
    LET cells == SelectSeq(EmptyCells(board), LAMBDA p : filled[p[1]][p[2]] # 0)
    IN  IF cells = << >> THEN << "none" >> ELSE cells[1]

Hint(cell, value, technique) ==
    [kind |-> "hint", row |-> cell[1], col |-> cell[2], value |-> value,
     technique |-> technique]

\* the legacy getHint: row, col and value of the hint h that
\* getIntelligentHint returned on the module-level instance
getHint(hint) ==
    IF hint.kind = "hint"
    THEN [kind |-> "hint", row |-> hint.row, col |-> hint.col, value |-> hint.value]
    ELSE Null

\* getIntelligentHint, lines 428-431: the scratch solver, the copy of the
\* caller's board, and the candidates built on the copy
CallHint(b) ==
    /\ pc = "idle"
    /\ LET h0 == [r \in Refs |-> IF r = "board" THEN b ELSE NoBoard]
           boardCopy == copyBoard("board", "boardCopy")
           h1 == Alloc(h0, "board", "boardCopy")
           s0 == initializeCandidates(h1[boardCopy])
       IN  /\ heap' = [h1 EXCEPT ![boardCopy] = s0.board]
           /\ solvers' = [solvers EXCEPT !["solver"] =
                              [solvingSteps |-> << >>, candidates |-> s0.cand]]
           /\ target' = boardCopy
    /\ self' = "solver"
    /\ api' = "getIntelligentHint"
    /\ input' = b
    /\ pc' = "hintNaked"
    /\ outcome' = NoResult
    /\ result' = NoResult
    /\ UNCHANGED << progress, stack, retval, fresh >>

\* lines 434-449: the naked singles on the copy, and the first cell the
\* copy has filled
HintNakedSingles ==
    /\ pc = "hintNaked"
    /\ LET s == solveNakedSingles(Cur)
           cell == FirstFilled(heap["board"], heap'[target])
       IN  /\ Store(s)
           /\ IF s.progress /\ cell # << "none" >>
              THEN /\ result' = Hint(cell, heap'[target][cell[1]][cell[2]], "Naked Single")
                   /\ pc' = "done"
              ELSE /\ result' = result
                   /\ pc' = "hintHidden"
    /\ UNCHANGED << api, input, self, target, progress, stack, retval, outcome, fresh >>

\* lines 451-469: the hidden singles on the copy and the first cell the copy
\* has filled, or else the call of solve on a second copy of the board
HintHiddenSingles ==
    /\ pc = "hintHidden"
    /\ LET s == solveHiddenSingles(Cur)
           h == [heap EXCEPT ![target] = s.board]
           cell == FirstFilled(h["board"], h[target])
       IN  /\ solvers' = [solvers EXCEPT ![self] =
                              [solvingSteps |-> s.steps, candidates |-> s.cand]]
           /\ IF s.progress /\ cell # << "none" >>
              THEN /\ heap' = h
                   /\ result' = Hint(cell, h[target][cell[1]][cell[2]], "Hidden Single")
                   /\ pc' = "done"
                   /\ target' = target
              ELSE /\ heap' = Alloc(h, "board", "fallbackCopy")
                   /\ result' = result
                   /\ pc' = "enter"
                   /\ target' = copyBoard("board", "fallbackCopy")
    /\ UNCHANGED << api, input, self, progress, stack, retval, outcome, fresh >>

\* lines 470-486: the hint after the fallback solve
FallbackHint(h, out) ==
    LET board == h["board"]
        boardCopy == h[copyBoard("board", "boardCopy")]
        cells == EmptyCells(board)
    IN  IF out.success /\ cells # << >>
        THEN Hint(cells[1], boardCopy[cells[1][1]][cells[1][2]], "Logical Deduction")
        ELSE Null

\* ------------------------------------------------------------- difficulty
\* analyzeDifficulty, lines 512-514
CallAnalyze(b) ==
    /\ pc = "idle"
    /\ heap' = Alloc([r \in Refs |-> IF r = "board" THEN b ELSE NoBoard],
                     "board", "originalBoard")
    /\ solvers' = [solvers EXCEPT !["solver"] = NewSolver]
    /\ self' = "solver"
    /\ target' = copyBoard("board", "originalBoard")
    /\ api' = "analyzeDifficulty"
    /\ input' = b
    /\ pc' = "enter"
    /\ outcome' = NoResult
    /\ result' = NoResult
    /\ UNCHANGED << progress, stack, retval, fresh >>

\* board.flat().filter(cell => cell !== 0).length
filledCells(board) == Cardinality({p \in Idx \X Idx : board[p[1]][p[2]] # 0})

Max(a, b) == IF a >= b THEN a ELSE b

\* lines 516-535
Difficulty(board, out) ==
    IF ~ out.success THEN [kind |-> "difficulty", level |-> "Invalid", score |-> 0]
    ELSE LET techniques == {out.steps[i].technique : i \in DOMAIN out.steps}
             score == (IF "Naked Single" \in techniques THEN 1 ELSE 0)
                      + (IF "Hidden Single" \in techniques THEN 2 ELSE 0)
                      + (IF "Pointing Pairs" \in techniques THEN 3 ELSE 0)
                      + (IF "Box/Line Reduction" \in techniques THEN 3 ELSE 0)
                      + Max(0, FilledTarget - filledCells(board))
         IN  [kind |-> "difficulty",
              level |-> IF score <= 5 THEN "Easy"
                        ELSE IF score <= 15 THEN "Medium"
                        ELSE IF score <= 25 THEN "Hard" ELSE "Expert",
              score |-> score]

\* ------------------------------------------------------------ entry points
\* solve called on the instance with the caller's board
CallSolve(b) ==
    /\ pc = "idle"
    /\ heap' = [r \in Refs |-> IF r = "board" THEN b ELSE NoBoard]
    /\ self' = "this"
    /\ target' = "board"
    /\ api' = "solve"
    /\ input' = b
    /\ pc' = "enter"
    /\ outcome' = NoResult
    /\ result' = NoResult
    /\ UNCHANGED << solvers, progress, stack, retval, fresh >>

\* solve has returned: the entry point returns
Finish ==
    /\ pc = "finish"
    /\ result' = IF api = "solve" THEN outcome
                 ELSE IF api = "analyzeDifficulty" THEN Difficulty(heap["board"], outcome)
                 ELSE FallbackHint(heap, outcome)
    /\ pc' = "done"
    /\ UNCHANGED << heap, solvers, api, input, self, target, progress, stack, retval,
                    outcome, fresh >>

\* the instance is kept for another call
NextCall ==
    /\ pc = "done"
    /\ pc' = "idle"
    /\ api' = "none"
    /\ fresh' = IF fresh.kind # "unused" THEN fresh
                ELSE IF api = "solve"
                     THEN [kind |-> "solve", input |-> input, result |-> result,
                           board |-> heap["board"]]
                     ELSE [kind |-> "other"]
    /\ UNCHANGED << heap, solvers, input, self, target, progress, stack, retval,
                    outcome, result >>

\* ----------------------------------------------------------------- inputs
\* the board of a list of rows
Grid(rows) == [r \in Idx |-> [c \in Idx |-> rows[r + 1][c + 1]]]

\* a complete valid grid
Solution ==
    Grid(<< << 1, 6, 2, 8, 5, 7, 4, 9, 3 >>,
            << 5, 3, 4, 1, 2, 9, 6, 7, 8 >>,
            << 7, 8, 9, 6, 4, 3, 5, 2, 1 >>,
            << 4, 7, 5, 3, 1, 2, 9, 8, 6 >>,
            << 9, 1, 3, 5, 8, 6, 7, 4, 2 >>,
            << 6, 2, 8, 7, 9, 4, 1, 3, 5 >>,
            << 3, 5, 6, 4, 7, 8, 2, 1, 9 >>,
            << 2, 4, 1, 9, 3, 5, 8, 6, 7 >>,
            << 8, 9, 7, 2, 6, 1, 3, 5, 4 >> >>)

\* board with the cells of holes emptied
Blank(board, holes) ==
    [r \in Idx |-> [c \in Idx |-> IF << r, c >> \in holes THEN 0 ELSE board[r][c]]]

\* three cells that one pass of the single rules fills, one of them by a
\* hidden single
HolesHidden == {<< 3, 2 >>, << 3, 3 >>, << 4, 2 >>}
\* four cells on two rows, two columns, two boxes holding two digits:
\* no rule applies and either digit completes the grid
HolesRectangle == {<< 0, 0 >>, << 0, 2 >>, << 7, 0 >>, << 7, 2 >>}
\* a puzzle with one completion that no rule opens: the search guesses,
\* and its first guess fails
HolesSearch ==
    {<< 3, 0 >>, << 3, 4 >>, << 3, 5 >>, << 3, 8 >>, << 4, 0 >>, << 4, 3 >>, << 4, 5 >>,
     << 4, 7 >>, << 5, 1 >>, << 5, 3 >>, << 5, 4 >>, << 6, 3 >>, << 6, 4 >>, << 6, 8 >>,
     << 7, 0 >>, << 7, 3 >>, << 7, 5 >>, << 7, 7 >>, << 8, 1 >>, << 8, 3 >>, << 8, 4 >>,
     << 8, 5 >>, << 8, 7 >>, << 8, 8 >>}
\* the same with three more cells: a pointing pair eliminates, and the
\* search nests two deep
HolesPointing == HolesSearch \cup {<< 1, 6 >>, << 1, 7 >>, << 4, 6 >>}

\* twenty-six cells, and a wrong digit in a twenty-seventh: a valid board
\* without completion, which the search refutes only by guessing
HolesRefuted ==
    {<< 0, 2 >>, << 0, 3 >>, << 0, 6 >>, << 1, 6 >>, << 1, 7 >>, << 2, 1 >>, << 2, 4 >>,
     << 2, 5 >>, << 2, 7 >>, << 4, 6 >>, << 4, 7 >>, << 5, 1 >>, << 5, 2 >>, << 6, 1 >>,
     << 6, 3 >>, << 6, 5 >>, << 6, 6 >>, << 7, 4 >>, << 7, 5 >>, << 7, 6 >>, << 7, 7 >>,
     << 8, 1 >>, << 8, 3 >>, << 8, 4 >>, << 8, 7 >>, << 8, 8 >>}
Refuted == [Blank(Solution, HolesRefuted) EXCEPT ![6][8] = 4]

\* twenty-four cells that the rules fill without a guess, in passes of
\* which the first leaves singles to the next; the pointing pairs and both
\* loop nests of the box/line reduction delete candidates on the way
HolesBoxLine ==
    {<< 0, 2 >>, << 0, 4 >>, << 0, 5 >>, << 0, 8 >>, << 1, 0 >>, << 1, 3 >>, << 1, 4 >>,
     << 2, 5 >>, << 3, 2 >>, << 3, 4 >>, << 4, 0 >>, << 4, 1 >>, << 4, 3 >>, << 4, 4 >>,
     << 4, 5 >>, << 6, 4 >>, << 6, 5 >>, << 7, 0 >>, << 7, 2 >>, << 7, 3 >>, << 8, 1 >>,
     << 8, 3 >>, << 8, 4 >>, << 8, 5 >>}

Seeds ==
    {Solution, Blank(Solution, HolesHidden), Blank(Solution, HolesRectangle),
     Blank(Solution, HolesSearch), Blank(Solution, HolesPointing), Refuted,
     Blank(Solution, HolesBoxLine)}

\* the most cells of a seed that an input overwrites
MaxEdits == 1
\* the cells an input may overwrite, and the values it may write: empty,
\* two digits, and two values that are no digit
EditCells == {<< 3, 2 >>, << 1, 3 >>, << 1, 8 >>}
EditVals == {0 - 1, 0, 3, 7, 10}

\* the sets of at most MaxEdits overwrites, each a cell and its new value
EditSets ==
    {e \in SUBSET (EditCells \X EditVals) :
        /\ Cardinality(e) <= MaxEdits
        /\ \A x, y \in e : x[1] = y[1] => x = y}

Edited(board, e) ==
    [r \in Idx |-> [c \in Idx |->
        IF \E x \in e : x[1] = << r, c >>
        THEN (CHOOSE x \in e : x[1] = << r, c >>)[2]
        ELSE board[r][c]]]

Inputs == {Edited(seed, e) : seed \in Seeds, e \in EditSets}

\* the boards of the runs that call the same instance again
SeqInputs == {Blank(Solution, HolesHidden), Blank(Solution, HolesSearch), Refuted}

\* ---------------------------------------------------------- specifications
Init ==
    /\ heap = [r \in Refs |-> NoBoard]
    /\ solvers = [i \in Insts |-> NewSolver]
    /\ api = "none"
    /\ input = NoBoard
    /\ self = "this"
    /\ target = "board"
    /\ pc = "idle"
    /\ progress = FALSE
    /\ stack = << >>
    /\ retval = FALSE
    /\ outcome = NoResult
    /\ result = NoResult
    /\ fresh = [kind |-> "unused"]

\* the steps of a running call
Run ==
    \/ EnterSolve
    \/ NakedSingles
    \/ HiddenSingles
    \/ PointingPairs
    \/ BoxLineReduction
    \/ SelectCell
    \/ TryValue
    \/ ReturnToCaller
    \/ SolveReturns
    \/ HintNakedSingles
    \/ HintHiddenSingles
    \/ Finish

\* one call on a new instance
Next ==
    \/ \E b \in Inputs : CallSolve(b)
    \/ \E b \in Inputs : CallHint(b)
    \/ \E b \in Inputs : CallAnalyze(b)
    \/ Run

Spec == Init /\ [][Next]_vars

\* any number of calls on one instance
NextSeq ==
    \/ \E b \in SeqInputs : CallSolve(b)
    \/ \E b \in SeqInputs : CallHint(b)
    \/ \E b \in SeqInputs : CallAnalyze(b)
    \/ Run
    \/ NextCall

SpecSeq == Init /\ [][NextSeq]_vars

\* the positions of a call
Pcs == {"idle", "enter", "naked", "hidden", "pointing", "boxline", "select", "try",
        "return", "hintNaked", "hintHidden", "finish", "done"}

\* a call is under way
Running == pc \notin {"idle", "done"}

\* a call under way moves to another position, or stays at its position
Proceed == Running /\ pc' \in Pcs

\* one call, run to its end. The engine is synchronous: a call under way
\* executes until it returns, so it does not stay at one position for ever.
\* (The only steps that keep the position are the returns of nested calls
\* that succeeded, each of which pops a frame.)
SpecLive == Init /\ [][Next]_vars /\ WF_pc(Proceed)

\* ------------------------------------------------- the terms of the claims
\* the row, column and box of a cell, itself excluded
Peers(row, col) ==
    ({RowCells(row)[i] : i \in 1 .. N} \cup {ColCells(col)[i] : i \in 1 .. N}
        \cup {BoxCells(row \div B, col \div B)[i] : i \in 1 .. N}) \ {<< row, col >>}

\* no peer of the cell holds value
Legal(board, row, col, value) ==
    \A p \in Peers(row, col) : board[p[1]][p[2]] # value

\* every cell is empty or holds a digit that none of its peers holds
WellFormed(board) ==
    \A row, col \in Idx :
        board[row][col] # 0 =>
            board[row][col] \in Digits /\ Legal(board, row, col, board[row][col])

\* the boards got from board by filling the empty cells of a row from
\* position i on, one after the other, each with a digit legal at its turn
RECURSIVE RowFillings(_, _, _)
RowFillings(board, cells, i) ==
    IF i > Len(cells) THEN {board}
    ELSE UNION {RowFillings([board EXCEPT ![cells[i][1]][cells[i][2]] = v], cells, i + 1) :
                   v \in {d \in Digits : Legal(board, cells[i][1], cells[i][2], d)}}

\* the rows from row on can be filled, one row after the other
RECURSIVE Completes(_, _)
Completes(board, row) ==
    \/ row = N
    \/ \E filled \in RowFillings(board,
                       SelectSeq(RowCells(row), LAMBDA p : board[p[1]][p[2]] = 0), 1) :
          Completes(filled, row + 1)

\* board has a valid completion
HasCompletion(board) == WellFormed(board) /\ Completes(board, 0)

\* every row, column and box of board holds each digit once
EveryUnitComplete(board) ==
    /\ \A row \in Idx : {board[row][c] : c \in Idx} = Digits
    /\ \A col \in Idx : {board[r][col] : r \in Idx} = Digits
    /\ \A boxRow, boxCol \in BoxIdx :
          {board[BoxCells(boxRow, boxCol)[i][1]][BoxCells(boxRow, boxCol)[i][2]] :
              i \in 1 .. N} = Digits

\* board is a completion of given
IsCompletionOf(board, given) ==
    /\ \A row, col \in Idx : given[row][col] # 0 => board[row][col] = given[row][col]
    /\ \A row, col \in Idx : board[row][col] # 0
    /\ EveryUnitComplete(board)

\* the call of solve, of the hint, of the analysis has returned
SolveDone == api = "solve" /\ pc = "done"
HintDone == api = "getIntelligentHint" /\ pc = "done"
AnalyzeDone == api = "analyzeDifficulty" /\ pc = "done"

\* ----------------------------------------------------------------- claims
\* C1: on a board that isValidBoard accepts and that has a completion, solve
\* returns success and leaves the board a completion of the input: the
\* given digits kept, no cell 0, every row, column and box a permutation
\* of 1..9.
C1_SolveCompletes ==
    SolveDone /\ isValidBoard(input) /\ HasCompletion(input) =>
        /\ result.success
        /\ IsCompletionOf(heap["board"], input)

\* the search has guessed, has been refuted once, and has completed the board
C1_Witness ==
    /\ SolveDone /\ isValidBoard(input) /\ HasCompletion(input)
    /\ result.success
    /\ \E i \in DOMAIN result.steps :
          heap["board"][result.steps[i].row][result.steps[i].col] # result.steps[i].value

\* C2: on a board with a digit repeated in a row, column or box, or with a
\* value outside 0..9, isValidBoard is false and solve returns failure with
\* 'Invalid initial board state'; at no point of the call does a cell
\* differ from the input or the trace hold an entry, and no rule or search
\* step is taken.
C2_InvalidRejected ==
    api = "solve" /\ ~ WellFormed(input) =>
        /\ ~ isValidBoard(input)
        /\ heap["board"] = input
        /\ solvers["this"].solvingSteps = << >>
        /\ pc \in {"enter", "finish", "done"}
        /\ pc = "done" =>
              ~ result.success /\ result.error = "Invalid initial board state"

\* a board whose only fault is a digit twice in a box has been rejected
C2_Witness ==
    /\ SolveDone /\ ~ WellFormed(input)
    /\ \A row, col \in Idx : input[row][col] \in 0 .. 9
    /\ \A u \in Idx : ~ Repeats(input, RowCells(u)) /\ ~ Repeats(input, ColCells(u))
    /\ result.error = "Invalid initial board state"

\* C3: on a board that isValidBoard accepts and that has no completion,
\* solve returns failure with 'No solution exists for this puzzle', never
\* success.
C3_UnsolvableReported ==
    SolveDone /\ isValidBoard(input) /\ ~ HasCompletion(input) =>
        /\ ~ result.success
        /\ result.error = "No solution exists for this puzzle"

\* a board without completion has been refuted, the rules having placed
\* digits on the way
C3_Witness ==
    /\ SolveDone /\ isValidBoard(input) /\ ~ HasCompletion(input)
    /\ ~ result.success
    /\ result.steps # << >>

\* C4: on a valid, solvable, incomplete board getIntelligentHint, and
\* getHint built on it, return a hint for a cell that is empty in the
\* input, with a digit 1..9 that some completion of the input has in that
\* cell; a hint that comes from the full solve names the first cell,
\* row-major, in which the solved board differs from the input, with the
\* digit the solve placed there.
C4_HintCorrect ==
    HintDone /\ isValidBoard(input) /\ HasCompletion(input) /\ ~ isComplete(input) =>
        /\ result.kind = "hint"
        /\ getHint(result) =
              [kind |-> "hint", row |-> result.row, col |-> result.col,
               value |-> result.value]
        /\ input[result.row][result.col] = 0
        /\ result.value \in Digits
        /\ HasCompletion([input EXCEPT ![result.row][result.col] = result.value])
        /\ result.technique = "Logical Deduction" =>
              /\ << result.row, result.col >> = FirstFilled(input, heap["fallbackCopy"])
              /\ result.value = heap["fallbackCopy"][result.row][result.col]

\* C5: getIntelligentHint returns null when the input is complete and when
\* the input has no completion, be it invalid or valid; no board without
\* solution gets a hint.
C5_NoHintWithoutSolution ==
    HintDone /\ (isComplete(input) \/ ~ HasCompletion(input)) =>
        result = Null /\ getHint(result) = Null

\* the techniques of a trace
Techniques(steps) == {steps[i].technique : i \in DOMAIN steps}

\* C6: when the solve of the analysis succeeds, the score is 1 for a Naked
\* Single in the trace, plus 2 for a Hidden Single of any unit in the
\* trace, plus 3 if Pointing Pairs was used, plus 3 if Box/Line Reduction
\* was used, plus max(0, 30 - given cells). The two eliminating rules leave
\* no trace entry; the formula accepts either value for their terms.
C6_ScoreFormula ==
    AnalyzeDone /\ outcome.success =>
        \E pointing, boxLine \in {0, 3} :
            result.score =
                (IF "Naked Single" \in Techniques(outcome.steps) THEN 1 ELSE 0)
                + (IF Techniques(outcome.steps)
                        \cap {"Hidden Single (Row)", "Hidden Single (Column)",
                              "Hidden Single (Box)"} # {}
                   THEN 2 ELSE 0)
                + pointing + boxLine
                + Max(0, FilledTarget - filledCells(input))

\* C8: getIntelligentHint and analyzeDifficulty leave every cell of the
\* caller's board as it was, at every point of the call and whatever
\* they return.
C8_CallerBoardUnchanged ==
    api \in {"getIntelligentHint", "analyzeDifficulty"} => heap["board"] = input

\* a call has returned after writing to its copy of the board
C8_Witness ==
    /\ \/ HintDone /\ result.kind = "hint" /\ heap["boardCopy"] # input
       \/ AnalyzeDone /\ result.level # "Invalid" /\ heap["originalBoard"] # input
    /\ heap["board"] = input

\* C9: the trace of a successful solve describes the completed board: every
\* entry's value is the board's value at its cell, no cell is the target
\* of two entries, and the entries are no more than the cells that were
\* empty in the input.
C9_TraceDescribesSolution ==
    SolveDone /\ result.success =>
        /\ \A i \in DOMAIN result.steps :
              heap["board"][result.steps[i].row][result.steps[i].col]
                  = result.steps[i].value
        /\ \A i, j \in DOMAIN result.steps :
              result.steps[i].row = result.steps[j].row
                  /\ result.steps[i].col = result.steps[j].col => i = j
        /\ Len(result.steps) <= Len(EmptyCells(input))

\* the candidates that the digits of the peers leave to each cell
PeerCandidates(board) ==
    [row \in Idx |-> [col \in Idx |->
        IF board[row][col] # 0 THEN {}
        ELSE Digits \ {board[p[1]][p[2]] : p \in Peers(row, col)}]]

\* C10: the step that runs initializeCandidates on a valid board leaves
\* every given cell with no candidate and every empty cell with 1..9 less
\* exactly the digits of its row, column and box peers.
C10_InitialCandidates ==
    [][pc = "enter" /\ isValidBoard(heap[target]) =>
          solvers'[self].candidates = PeerCandidates(heap'[target])]_vars

\* the candidates of a valid board with empty cells have been built
C10_Witness ==
    /\ pc = "naked" /\ stack = << >> /\ solvers[self].solvingSteps = << >>
    /\ heap[target] = input /\ ~ isComplete(input)
    /\ solvers[self].candidates = PeerCandidates(input)
    /\ \E row, col \in Idx : Cardinality(solvers[self].candidates[row][col]) > 1

\* C7: a solve on an instance that has served earlier calls returns what the
\* first call on the new instance returned for the same input: the same
\* success flag, error and trace, and it leaves the same board.
C7_SolveDependsOnInputOnly ==
    SolveDone /\ fresh.kind = "solve" /\ fresh.input = input =>
        /\ result = fresh.result
        /\ heap["board"] = fresh.board

\* a board is solved again, by search, on an instance that has solved it
\* first and has since served a hint or an analysis
C7_Witness ==
    /\ SolveDone /\ fresh.kind = "solve" /\ fresh.input = input
    /\ result.success /\ Len(result.steps) > Len(EmptyCells(input))
    /\ solvers["solver"] # NewSolver
    /\ result = fresh.result


\* the positions of a call at which its solve has built the candidates and
\* has not yet handed its result to the entry point
SolvePcs == {"naked", "hidden", "pointing", "boxline", "select", "try", "return", "finish"}

\* a solve of a board that isValidBoard accepts is at one of these positions
InSolve == pc \in SolvePcs /\ isValidBoard(input)

\* board and candidate grid agree: no digit twice in a row, column or box,
\* no candidate left in a filled cell, and no candidate of an empty cell that
\* one of its 20 peers holds
Lockstep(board, cand) ==
    /\ \A row, col \in Idx :
          board[row][col] # 0 => Legal(board, row, col, board[row][col])
    /\ \A row, col \in Idx : board[row][col] # 0 => cand[row][col] = {}
    /\ \A row, col \in Idx :
          board[row][col] = 0 =>
              \A p \in Peers(row, col) : board[p[1]][p[2]] \notin cand[row][col]

\* C11: in every state of a solve of a valid board, after every rule, every
\* trial assignment and every restore, the board has no digit twice in a
\* row, column or box, every filled cell has an empty candidate set, and no
\* empty cell has a candidate that one of its peers holds.
C11_BoardAndCandidatesInLockstep ==
    InSolve => Lockstep(heap[target], solvers[self].candidates)

\* a refuted trial has just been restored on a valid board: the cell is empty
\* again and has its candidates back
C11_Witness ==
    /\ InSolve /\ pc = "try" /\ Top.i > 1
    /\ heap[target][Top.row][Top.col] = 0
    /\ Cardinality(solvers[self].candidates[Top.row][Top.col]) >= 2
    /\ Lockstep(heap[target], solvers[self].candidates)


\* the complete boards got from board by filling the rows from row on
RECURSIVE CompletionsFrom(_, _)
CompletionsFrom(board, row) ==
    IF row = N THEN {board}
    ELSE UNION {CompletionsFrom(filled, row + 1) :
                   filled \in RowFillings(board,
                                 SelectSeq(RowCells(row), LAMBDA p : board[p[1]][p[2]] = 0), 1)}

\* the valid complete grids that agree with board on its filled cells
Completions(board) == IF WellFormed(board) THEN CompletionsFrom(board, 0) ELSE {}

\* the candidate grid has, at every empty cell, the digit of every completion
KeepsCompletions(board, cand) ==
    \A S \in Completions(board) :
        \A row, col \in Idx : board[row][col] = 0 => S[row][col] \in cand[row][col]

\* every candidate set is within the set of each snapshot not yet dropped
WithinSnapshots ==
    \A k \in DOMAIN stack :
        stack[k].candidatesCopy # << >> =>
            \A row, col \in Idx :
                solvers[self].candidates[row][col] \subseteq stack[k].candidatesCopy[row][col]

\* C12: in every state of a solve, for every valid complete grid that agrees
\* with the board on its filled cells, the digit of the grid at each empty
\* cell is a candidate of that cell; and each candidate set is a subset of
\* what it was in every snapshot taken by a trial that is still open.
C12_CandidatesKeepEveryCompletion ==
    pc \in SolvePcs =>
        /\ KeepsCompletions(heap[target], solvers[self].candidates)
        /\ WithinSnapshots

\* a board that has a completion, inside an open trial, on which a rule has
\* deleted from an empty cell a candidate that no peer of the cell holds
C12_Witness ==
    /\ pc \in SolvePcs /\ stack # << >> /\ Top.candidatesCopy # << >>
    /\ Completions(heap[target]) # {}
    /\ \E row, col \in Idx :
          /\ heap[target][row][col] = 0
          /\ solvers[self].candidates[row][col] # PeerCandidates(heap[target])[row][col]
    /\ KeepsCompletions(heap[target], solvers[self].candidates)


\* C13: the snapshot of a trial is the board and the candidate grid as they
\* are just before the assignment, and when the trial is refuted the restore
\* leaves the board and every candidate set equal to that snapshot, so that
\* the next value is tried from the state the cell was selected in: the cell
\* is empty, it is the cell the scan selects, and its candidates are the
\* values of the loop.
C13_RestoreIsExact ==
    [][/\ pc = "try" /\ pc' = "naked" =>
              /\ stack'[Len(stack)].boardCopy = heap[target]
              /\ stack'[Len(stack)].candidatesCopy = solvers[self].candidates
       /\ pc = "return" /\ stack # << >> /\ ~ retval =>
              /\ heap'[target] = Top.boardCopy
              /\ solvers'[self].candidates = Top.candidatesCopy
              /\ heap'[target][Top.row][Top.col] = 0
              /\ FindBestCell(heap'[target], solvers'[self].candidates)
                     = << Top.row, Top.col >>
              /\ Ascending(solvers'[self].candidates[Top.row][Top.col])
                     = Top.candidateValues
       /\ pc = "try" /\ pc' = "naked" /\ Top.i > 1 =>
              /\ heap[target] = Top.boardCopy
              /\ solvers[self].candidates = Top.candidatesCopy]_vars

\* a trial nested in another has been refuted and restored, after rules had
\* filled cells in it: the trace has entries for cells that are empty again
C13_Witness ==
    /\ pc = "try" /\ Len(stack) >= 2 /\ Top.i > 1
    /\ heap[target] = Top.boardCopy
    /\ solvers[self].candidates = Top.candidatesCopy
    /\ \E k \in DOMAIN solvers[self].solvingSteps :
          heap[target][solvers[self].solvingSteps[k].row][solvers[self].solvingSteps[k].col] = 0


\* a rule leaves the board and the candidate grid of the state as they are
Stable(s, t) == t.board = s.board /\ t.cand = s.cand

\* none of the four rules changes the state, and no empty cell has exactly
\* one candidate
Fixpoint ==
    /\ Stable(Cur, solveNakedSingles(Cur))
    /\ Stable(Cur, solveHiddenSingles(Cur))
    /\ Stable(Cur, solvePointingPairs(Cur))
    /\ Stable(Cur, solveBoxLineReduction(Cur))
    /\ \A row, col \in Idx :
          heap[target][row][col] = 0 =>
              Cardinality(solvers[self].candidates[row][col]) # 1

\* C14: a pass of constraintPropagation runs the naked singles, the hidden
\* singles, the pointing pairs and the box/line reduction in this order, each
\* on the state the one before left; constraintPropagation returns only in a
\* state that none of the four rules changes and in which no empty cell has
\* exactly one candidate; and the cell the search then branches on has at
\* least two candidates.
C14_PropagationReturnsAtFixpoint ==
    /\ [](pc = "select" => Fixpoint)
    /\ [][/\ pc = "naked" =>
                 pc' = "hidden" /\ heap'[target] = solveNakedSingles(Cur).board
          /\ pc = "hidden" =>
                 pc' = "pointing" /\ heap'[target] = solveHiddenSingles(Cur).board
          /\ pc = "pointing" =>
                 /\ pc' = "boxline"
                 /\ solvers'[self].candidates = solvePointingPairs(Cur).cand
          /\ pc = "boxline" =>
                 /\ pc' \in {"naked", "select"}
                 /\ solvers'[self].candidates = solveBoxLineReduction(Cur).cand
          /\ pc' = "select" => pc = "boxline"
          /\ pc = "select" /\ pc' = "try" =>
                 /\ Len(stack'[Len(stack')].candidateValues) >= 2
                 /\ Cardinality(solvers[self].candidates[stack'[Len(stack')].row]
                                                        [stack'[Len(stack')].col]) >= 2]_vars

\* constraintPropagation has returned after rules had filled cells and
\* deleted candidates, and the search has selected a cell to branch on
C14_Witness ==
    /\ pc = "try" /\ Top.i = 1 /\ Len(Top.candidateValues) >= 2
    /\ Fixpoint
    /\ solvers[self].solvingSteps # << >>
    /\ solvers[self].candidates # PeerCandidates(heap[target])


\* the number of empty cells, and the number of candidates of all cells
EmptyCount(board) == Cardinality({p \in Idx \X Idx : board[p[1]][p[2]] = 0})
CandidateTotal(cand) ==
    Cardinality({x \in Idx \X Idx \X Digits : x[3] \in cand[x[1]][x[2]]})

\* a step makes neither count larger, and it makes one of them smaller
NotMore ==
    /\ EmptyCount(heap'[target]) <= EmptyCount(heap[target])
    /\ CandidateTotal(solvers'[self].candidates) <= CandidateTotal(solvers[self].candidates)
Fewer ==
    \/ EmptyCount(heap'[target]) < EmptyCount(heap[target])
    \/ CandidateTotal(solvers'[self].candidates) < CandidateTotal(solvers[self].candidates)

\* C15: every solve returns. No rule of a pass makes the number of empty
\* cells or the number of candidates larger, and a rule that makes the pass
\* report progress, so that another pass follows, makes one of the two
\* smaller; so every constraintPropagation reaches the state it returns in.
\* The calls of solveWithBacktracking nested in the call that solve makes
\* are never more than the cells that were empty in the input, and once a
\* call is nested the outermost call is within that number too. A step that
\* keeps the position of the call pops a frame.
C15_SolveTerminates ==
    /\ [](pc \in SolvePcs =>
             /\ Len(stack) <= EmptyCount(input)
             /\ stack # << >> => Len(stack) + 1 <= EmptyCount(input))
    /\ [][/\ pc \in {"naked", "hidden", "pointing", "boxline"} => NotMore
          /\ pc = "naked" /\ progress' => Fewer
          /\ pc \in {"hidden", "pointing"} /\ ~ progress /\ progress' => Fewer
          /\ pc = "boxline" /\ ~ progress /\ pc' = "naked" => Fewer
          /\ Running /\ pc' = pc => Len(stack') < Len(stack)]_vars
    /\ (pc \in {"naked", "hidden", "pointing", "boxline"}) ~> (pc = "select")
    /\ (pc = "enter") ~> (pc = "finish")

\* a solve has returned with success after a search that refuted trials: the
\* trace has more entries than the input had empty cells
C15_Witness ==
    /\ api = "solve" /\ pc = "finish" /\ outcome.success
    /\ Len(outcome.steps) > EmptyCount(input)
    /\ stack = << >>

====
